---- MODULE Spec2Model ----
(***************************************************************************)
(* grml2usb.py: one run of main(), from the precondition checks over the   *)
(* per-source handle_iso() (mount, identify flavour, copy files, release   *)
(* mounts) to install_mbr() and install_bootloader().                      *)
(*                                                                         *)
(* Strings are sequences of one-character strings.  Every external command *)
(* and every filesystem effect the program performs is appended to `calls` *)
(* together with its exit status.                                          *)
(***************************************************************************)
EXTENDS Integers, Sequences, FiniteSets

\* ------------------------------------------------------------------ bounds
\* number of source arguments (args[0:len(args)-1])
MaxIsos == 2
\* digits of the partition number that ends the target path
MaxPartitionDigits == 1
\* external commands that exit non-zero in one run
MaxFailures == 1
\* length of the path handed to install_bootloader on its own
MaxPartitionLen == 5

\* ----------------------------------------------------------- input alphabets
Digit == {"0", "1", "2", "3", "4", "5", "6", "7", "8", "9"}
\* characters paths are built from: one non-digit, one digit
PathChars == {"b", "1"}
\* exit statuses of an external command / of subprocess.call
ExitCodes == {0, 1}
CallCodes == {-1, 0, 1}

SeqsUpTo(S, n) == UNION {[1..k -> S] : k \in 0..n}
\* target arguments (args[len(args)-1]): the empty string, and a device or
\* directory path followed by a partition number of no, one or more digits
Targets == {<<>>} \cup {<<"/", "b">> \o [i \in 1..k |-> "1"] : k \in 0..MaxPartitionDigits}
\* paths install_bootloader is applied to on its own
Partitions == SeqsUpTo(PathChars, MaxPartitionLen)
\* first lines readline() gives: an empty line, and a flavour name followed
\* by a version
Lines == {<<"\n">>, <<"g", " ", "2", "\n">>}
\* what os.path.isdir(iso) answers for a source argument
SourceKinds == {"file", "dir"}
IsoLists == SeqsUpTo(SourceKinds, MaxIsos) \ {<<>>}

\* the path of a source that is an ISO file, as mount is given it
IsoPath == <<"grml.iso">>

\* sentinel of a local that holds no value yet
Unset == <<"<unset>">>
\* mount point number of "no mount point"; 0 is the caller's target directory
NoMp == -1

VARIABLES
    options,        \* parsed options: dryrun, copyonly, mbr, grub, bootloaderonly
    isos,           \* args[0:len(args)-1], each by os.path.isdir(iso)
    target,         \* args[len(args)-1]
    target_isdir,   \* os.path.isdir(device); the directory is named "/b"
    syslinux_found, \* which("syslinux") is not None
    euid_root,      \* os.geteuid() == 0
    pc,             \* position of the run
    exit_status,    \* exit status of the process once pc = "exit"
    exc,            \* exception being propagated, "none" if none
    device,         \* main's local `device`
    iso_index,      \* position of the for loop of main (1-based)
    skip_mbr,       \* the module-level skip_mbr
    hi_skip_mbr,    \* handle_iso's local skip_mbr
    iso_mountpoint, device_mountpoint,
    remove_iso_mountpoint, remove_device_mountpoint,
    version_file,   \* identify_grml_flavour: "unset", "None" or "found"
    grml_info,      \* identify_grml_flavour: first line of the marker file
    grml_flavour,
    mbr_env,        \* what install_mbr's precondition checks observed
    tmpdirs,        \* temporary directories that exist (mkdtemp, not yet rmdir)
    mounted,        \* mount points something is mounted on
    target_dirs,    \* directories created under the target
    target_files,   \* files copied or written under the target
    failures,       \* external commands that exited non-zero so far
    calls           \* trace of external commands and filesystem effects

vars == <<options, isos, target, target_isdir, syslinux_found, euid_root, pc,
          exit_status, exc, device, iso_index, skip_mbr, hi_skip_mbr,
          iso_mountpoint, device_mountpoint, remove_iso_mountpoint,
          remove_device_mountpoint, version_file, grml_info, grml_flavour,
          mbr_env, tmpdirs, mounted, target_dirs, target_files, failures, calls>>

inputs == <<options, isos, target, target_isdir, syslinux_found, euid_root>>
hi_locals == <<hi_skip_mbr, iso_mountpoint, device_mountpoint,
               remove_iso_mountpoint, remove_device_mountpoint>>
id_locals == <<version_file, grml_info, grml_flavour>>
target_fs == <<target_dirs, target_files>>
mounts == <<tmpdirs, mounted>>

\* one entry of the trace: operation, source it belongs to (0: main), mount
\* point, argument (a path or file name) and exit status
Call(op, mp, arg, rc) == [op |-> op, iso |-> iso_index, mp |-> mp, arg |-> arg, rc |-> rc]
\* an entry made by main, install_mbr or install_bootloader
CallMain(op, arg, rc) == [op |-> op, iso |-> 0, mp |-> NoMp, arg |-> arg, rc |-> rc]

\* an external command may exit non-zero only while the budget lasts
MayExit(rc) == rc = 0 \/ failures < MaxFailures
Count(rc) == IF rc = 0 THEN failures ELSE failures + 1

\* ------------------------------------------------------------ pure helpers
AllDigits(s) == \A i \in 1..Len(s) : s[i] \in Digit

\* s[-1:].isdigit()
EndsInDigit(s) == Len(s) > 0 /\ s[Len(s)] \in Digit

\* re.match(r'(.*?)\d*$', s).group(1): the lazy group grows one character at a
\* time until the rest of the string is digits only
RECURSIVE lazy_group(_, _)
lazy_group(s, k) ==
    IF AllDigits(SubSeq(s, k + 1, Len(s))) THEN SubSeq(s, 1, k) ELSE lazy_group(s, k + 1)

\* as r'(.*)\d$' would: only the last character goes
re_group1_last_digit(s) == SubSeq(s, 1, Len(s) - 1)

re_group1(s) == lazy_group(s, 0)

\* [\w-]: letters, digits, underscore, hyphen
WordOrHyphen(c) == c \in {"g", "r", "m", "l", "_", "-"} \cup Digit

\* re.match(r'[\w-]*', line).group(): the longest leading run of [\w-]
RECURSIVE re_flavour(_)
re_flavour(line) ==
    IF line = <<>> \/ ~WordOrHyphen(Head(line)) THEN <<>>
    ELSE <<Head(line)>> \o re_flavour(Tail(line))

\* execute(f, *args): f runs unless options.dryrun
execute_runs == ~options.dryrun

\* --grub is left out of the runs with --copy-only: options.grub is read by
\* install_bootloader alone, which main does not call then (lines 595-598)
Init ==
    /\ options \in [dryrun : BOOLEAN, copyonly : BOOLEAN, mbr : BOOLEAN, grub : BOOLEAN,
                    bootloaderonly : {FALSE}]
    /\ options.copyonly => ~options.grub
    /\ isos \in IsoLists
    /\ target \in Targets
    /\ target_isdir \in BOOLEAN
    /\ target_isdir => target = <<"/", "b">>
    /\ syslinux_found \in BOOLEAN
    /\ euid_root \in BOOLEAN
    /\ pc = "main"
    /\ exit_status = 0
    /\ exc = "none"
    /\ device = Unset
    /\ iso_index = 0
    /\ skip_mbr = FALSE
    /\ hi_skip_mbr = FALSE
    /\ iso_mountpoint = NoMp
    /\ device_mountpoint = NoMp
    /\ remove_iso_mountpoint = FALSE
    /\ remove_device_mountpoint = FALSE
    /\ version_file = "unset"
    /\ grml_info = Unset
    /\ grml_flavour = Unset
    /\ mbr_env = [checked |-> FALSE, exists |-> FALSE, w_ok |-> FALSE, r_ok |-> FALSE, lilo |-> FALSE]
    /\ tmpdirs = {}
    /\ mounted = {}
    /\ target_dirs = {}
    /\ target_files = {}
    /\ failures = 0
    /\ calls = <<>>

\* the process ends with `status`, propagating exception `e`
Exit(status, e) ==
    /\ pc' = "exit"
    /\ exit_status' = status
    /\ exc' = e

\* lines 578-581: where main goes on with source number k of the for loop
for_iso(k) == IF k <= Len(isos) THEN "handle_iso" ELSE "mbr"

\* ------------------------------------------------------------------- main
\* lines 559-579: root check unless dry-run, split of args, syslinux check,
\* entry of the for loop
main_start ==
    /\ pc = "main"
    /\ IF ~options.dryrun /\ ~euid_root
         THEN Exit(1, "SystemExit") /\ UNCHANGED <<device, iso_index>>
       ELSE IF ~syslinux_found
         THEN Exit(1, "SystemExit") /\ device' = target /\ UNCHANGED iso_index
       ELSE /\ device' = target
            /\ iso_index' = 1
            /\ pc' = for_iso(1)
            /\ UNCHANGED <<exit_status, exc>>
    /\ UNCHANGED <<inputs, skip_mbr, hi_locals, id_locals, mbr_env, mounts, target_fs,
                   failures, calls>>

\* a fresh directory of tempfile.mkdtemp()
NewTmp == 1 + Cardinality({i \in 1..Len(calls) : calls[i].op = "mkdtemp"})

\* handle_iso returns to the for loop of main; its locals are gone
handle_iso_return ==
    /\ pc' = for_iso(iso_index + 1)
    /\ iso_index' = iso_index + 1
    /\ hi_skip_mbr' = FALSE
    /\ iso_mountpoint' = NoMp
    /\ device_mountpoint' = NoMp
    /\ remove_iso_mountpoint' = FALSE
    /\ remove_device_mountpoint' = FALSE
    /\ version_file' = "unset"
    /\ grml_info' = Unset
    /\ grml_flavour' = Unset

\* lines 502-518.  A directory source is not handled at all.  An ISO gets a
\* temporary mount point and is loop-mounted, whatever options.dryrun says.
\* Then a directory target is used as it is and the local skip_mbr is set; a
\* device gets a temporary mount point and is mounted.  A mount that exits
\* non-zero raises outside the try block: nothing is released.
handle_iso_mount ==
    /\ pc = "handle_iso"
    /\ IF isos[iso_index] = "dir"
         THEN /\ handle_iso_return
              /\ UNCHANGED <<exit_status, exc, mounts, failures, calls>>
         ELSE \E rc_iso \in ExitCodes, rc_dev \in ExitCodes :
              LET iso_mp == NewTmp
                  dev_mp == NewTmp + 1
                  iso_calls == <<Call("mkdtemp", iso_mp, <<>>, 0),
                                 Call("mount", iso_mp, IsoPath, rc_iso)>>
                  dev_calls == <<Call("mkdtemp", dev_mp, <<>>, 0),
                                 Call("mount", dev_mp, device, rc_dev)>>
              IN /\ MayExit(rc_iso)
                 /\ iso_mountpoint' = iso_mp
                 /\ remove_iso_mountpoint' = TRUE
                 /\ IF rc_iso # 0
                      THEN /\ rc_dev = 0
                           /\ tmpdirs' = tmpdirs \cup {iso_mp}
                           /\ calls' = calls \o iso_calls
                           /\ failures' = failures + 1
                           /\ Exit(1, "Exception")
                           /\ UNCHANGED <<mounted, hi_skip_mbr, device_mountpoint,
                                          remove_device_mountpoint>>
                    ELSE IF target_isdir
                      THEN /\ rc_dev = 0
                           /\ device_mountpoint' = 0
                           /\ remove_device_mountpoint' = FALSE
                           /\ hi_skip_mbr' = TRUE
                           /\ tmpdirs' = tmpdirs \cup {iso_mp}
                           /\ mounted' = mounted \cup {iso_mp}
                           /\ calls' = calls \o iso_calls
                           /\ pc' = "identify"
                           /\ UNCHANGED <<exit_status, exc, failures>>
                    ELSE /\ MayExit(rc_dev)
                         /\ device_mountpoint' = dev_mp
                         /\ remove_device_mountpoint' = TRUE
                         /\ tmpdirs' = tmpdirs \cup {iso_mp, dev_mp}
                         /\ calls' = calls \o iso_calls \o dev_calls
                         /\ failures' = Count(rc_dev)
                         /\ UNCHANGED hi_skip_mbr
                         /\ IF rc_dev = 0
                              THEN /\ mounted' = mounted \cup {iso_mp, dev_mp}
                                   /\ pc' = "identify"
                                   /\ UNCHANGED <<exit_status, exc>>
                              ELSE /\ mounted' = mounted \cup {iso_mp}
                                   /\ Exit(1, "Exception")
                 /\ UNCHANGED <<iso_index, id_locals>>
    /\ UNCHANGED <<inputs, device, skip_mbr, mbr_env, target_fs>>

\* lines 524-526: TypeError becomes sys.exit(1); anything else passes through
except_TypeError(e) == IF e = "TypeError" THEN "SystemExit" ELSE e

\* exception e is raised inside handle_iso's try block (lines 520-523): the
\* except clause, then the finally clause
Raise(e) ==
    /\ exc' = except_TypeError(e)
    /\ pc' = "finally"

\* ------------------------------------------------- identify_grml_flavour
\* as if open() of None gave an empty file
open_exc_none_opens(vf, readable) == IF vf # "None" /\ ~readable THEN "IOError" ELSE "none"

\* lines 478-492: search_file gives None for a missing marker, which is not
\* "" (line 480), so open(None) raises TypeError; an unreadable marker makes
\* open raise IOError; both are re-raised
open_exc(vf, readable) ==
    IF vf = "None" THEN "TypeError" ELSE IF ~readable THEN "IOError" ELSE "none"

\* line 521 with lines 472-494
identify_grml_flavour ==
    /\ pc = "identify"
    /\ \E found \in BOOLEAN, readable \in BOOLEAN, line \in Lines :
         LET vf == IF found THEN "found" ELSE "None"
             e == open_exc(vf, readable)
         IN /\ version_file' = vf
            /\ calls' = calls \o <<Call("search_file", iso_mountpoint, <<"grml-version">>,
                                        IF found THEN 0 ELSE 1)>>
            /\ IF e = "none"
                 THEN /\ grml_info' = line
                      /\ grml_flavour' = re_flavour(line)
                      /\ pc' = "copy_squashfs"
                      /\ UNCHANGED exc
                 ELSE /\ Raise(e)
                      /\ UNCHANGED <<grml_info, grml_flavour>>
    /\ UNCHANGED <<inputs, exit_status, device, iso_index, skip_mbr, hi_locals, mbr_env,
                   mounts, target_fs, failures>>

\* -------------------------------------------------------- copy_grml_files
NoDir == <<>>

\* execute(mkdir, directory): os.makedirs unless the directory is there
mkdir_calls(dir) ==
    IF dir = NoDir \/ ~execute_runs \/ dir \in target_dirs THEN <<>>
    ELSE <<Call("mkdir", device_mountpoint, dir, 0)>>
mkdir_dirs(dir) ==
    IF dir = NoDir \/ ~execute_runs THEN target_dirs ELSE target_dirs \cup {dir}

\* one of the four core artifacts: search_file, execute(mkdir, ...) where the
\* code has one, execute(subprocess.Popen, ["install", ...]) and proc.wait().
\* In dry-run execute gives None and proc.wait() raises AttributeError; a file
\* that was not found makes Popen raise TypeError (None in the argument list);
\* the exit status of install is not looked at.
copy_core(filename, dir, dest, next) ==
    \E found \in BOOLEAN, rc \in ExitCodes :
      LET searched == Call("search_file", iso_mountpoint, filename, IF found THEN 0 ELSE 1)
      IN /\ target_dirs' = mkdir_dirs(dir)
         /\ IF ~execute_runs
              THEN /\ calls' = calls \o <<searched>>
                   /\ Raise("AttributeError")
                   /\ UNCHANGED <<target_files, failures>>
            ELSE IF ~found
              THEN /\ calls' = calls \o <<searched>> \o mkdir_calls(dir)
                   /\ Raise("TypeError")
                   /\ UNCHANGED <<target_files, failures>>
            ELSE /\ MayExit(rc)
                 /\ calls' = calls \o <<searched>> \o mkdir_calls(dir)
                                   \o <<Call("install", device_mountpoint, dest, rc)>>
                 /\ target_files' = IF rc = 0 THEN target_files \cup {dest} ELSE target_files
                 /\ failures' = Count(rc)
                 /\ pc' = next
                 /\ UNCHANGED exc
         /\ UNCHANGED <<inputs, exit_status, device, iso_index, skip_mbr, hi_locals,
                        id_locals, mbr_env, mounts>>

squashfs_target == <<"/live/">>
release_target == <<"/boot/release/">> \o grml_flavour
isolinux_target == <<"/boot/isolinux/">>

\* lines 383-390
copy_squashfs ==
    /\ pc = "copy_squashfs"
    /\ copy_core(grml_flavour \o <<".squashfs">>, squashfs_target,
                 squashfs_target \o grml_flavour \o <<".squashfs">>, "copy_module")

\* lines 392-395
copy_module ==
    /\ pc = "copy_module"
    /\ copy_core(<<"filesystem.module">>, NoDir,
                 squashfs_target \o grml_flavour \o <<".module">>, "copy_kernel")

\* lines 397-403
copy_kernel ==
    /\ pc = "copy_kernel"
    /\ copy_core(<<"linux26">>, release_target, release_target \o <<"/linux26">>,
                 "copy_initrd")

\* lines 405-408
copy_initrd ==
    /\ pc = "copy_initrd"
    /\ copy_core(<<"initrd.gz">>, NoDir, release_target \o <<"/initrd.gz">>, "copy_boot")

\* lines 410-463.  Unless options.copyonly, /boot/isolinux/ is created and
\* logo.16 searched; line 416 then formats "cp %s %s" with the single value
\* logo, which raises TypeError whatever logo is, so lines 417-458 never run.
\* With options.copyonly: sync (its exit status is not looked at) and return.
\* as if line 410 did not test options.copyonly
copy_bootloader_files_always == TRUE

\* line 410: the bootloader-support files are to be copied
copy_bootloader_files == ~options.copyonly

copy_bootfiles ==
    /\ pc = "copy_boot"
    /\ IF ~copy_bootloader_files
         THEN /\ calls' = calls \o <<Call("sync", NoMp, <<>>, 0)>>
              /\ pc' = "finally"
              /\ UNCHANGED <<exc, target_dirs>>
         ELSE \E found \in BOOLEAN :
              /\ target_dirs' = mkdir_dirs(isolinux_target)
              /\ calls' = calls \o mkdir_calls(isolinux_target)
                                \o <<Call("search_file", iso_mountpoint, <<"logo.16">>,
                                          IF found THEN 0 ELSE 1)>>
              /\ Raise("TypeError")
    /\ UNCHANGED <<inputs, exit_status, device, iso_index, skip_mbr, hi_locals, id_locals,
                   mbr_env, mounts, target_files, failures>>

\* ---------------------------------------------------- handle_iso: finally
\* os.path.isdir of a mount point: the caller's directory or a live mkdtemp one
isdir(mp) == mp = 0 \/ mp \in tmpdirs

\* lines 528 and 531: the condition under which a mount point is released
release_iso == isdir(iso_mountpoint) /\ remove_iso_mountpoint
\* as a release at the end of the happy path only would
release_device_no_error == isdir(device_mountpoint) /\ remove_device_mountpoint /\ exc = "none"

\* as a release of whatever directory the target files went to would
release_device_any == isdir(device_mountpoint)

release_device == isdir(device_mountpoint) /\ remove_device_mountpoint

\* unmount(mp) exiting rc, and os.rmdir(mp) if it exited 0
release_calls(mp, rc) ==
    IF rc = 0 THEN <<Call("umount", mp, <<>>, 0), Call("rmdir", mp, <<>>, 0)>>
    ELSE <<Call("umount", mp, <<>>, rc)>>

\* lines 527-533, then handle_iso is left: by return, or with the pending
\* exception, which nothing catches and which ends the process with status 1.
\* An unmount that exits non-zero raises: the rest of the clause is skipped.
handle_iso_finally ==
    /\ pc = "finally"
    /\ \E rc_iso \in ExitCodes, rc_dev \in ExitCodes :
         LET do_iso == release_iso
             do_dev == release_device /\ (do_iso => rc_iso = 0)
             umounted == (IF do_iso /\ rc_iso = 0 THEN {iso_mountpoint} ELSE {})
                           \cup (IF do_dev /\ rc_dev = 0 THEN {device_mountpoint} ELSE {})
             failed == (do_iso /\ rc_iso # 0) \/ (do_dev /\ rc_dev # 0)
         IN /\ do_iso \/ rc_iso = 0
            /\ do_dev \/ rc_dev = 0
            /\ MayExit(rc_iso)
            /\ MayExit(rc_dev)
            /\ failures' = IF failed THEN failures + 1 ELSE failures
            /\ calls' = calls \o (IF do_iso THEN release_calls(iso_mountpoint, rc_iso) ELSE <<>>)
                              \o (IF do_dev THEN release_calls(device_mountpoint, rc_dev) ELSE <<>>)
            /\ mounted' = mounted \ umounted
            /\ tmpdirs' = tmpdirs \ umounted
            /\ IF failed
                 THEN Exit(1, "Exception") /\ UNCHANGED <<iso_index, hi_locals, id_locals>>
               ELSE IF exc # "none"
                 THEN Exit(1, exc) /\ UNCHANGED <<iso_index, hi_locals, id_locals>>
               ELSE handle_iso_return /\ UNCHANGED <<exit_status, exc>>
    /\ UNCHANGED <<inputs, device, skip_mbr, mbr_env, target_fs>>

\* ------------------------------------------------------------ install_mbr
\* as without lines 583-584
mbr_device_partition(d) == d

\* lines 583-584: a target ending in a digit is cut down to its device
mbr_device(d) == IF EndsInDigit(d) THEN re_group1(d) ELSE d

\* as without the os.R_OK test
is_writeable_w_only(dev, exists, w_ok, r_ok) == dev # <<>> /\ exists /\ w_ok

\* lines 259-269
is_writeable(dev, exists, w_ok, r_ok) ==
    IF dev = <<>> THEN FALSE
    ELSE IF ~exists THEN FALSE
    ELSE w_ok /\ r_ok

\* lines 276-282: what install_mbr raises before its first step
install_mbr_check(dev, exists, w_ok, r_ok, lilo) ==
    IF ~is_writeable(dev, exists, w_ok, r_ok) THEN "IOError"
    ELSE IF ~lilo THEN "Exception"
    ELSE "none"

\* lines 581-593 and the entry of install_mbr.  The test of line 581 reads the
\* module-level skip_mbr.  install_mbr first checks the device and the lilo
\* executable; main logs its IOError or Exception and leaves with sys.exit(1).
\* A test the code does not get to is recorded as FALSE.
main_mbr ==
    /\ pc = "mbr"
    /\ IF options.mbr /\ ~skip_mbr
         THEN \E e \in BOOLEAN, w \in BOOLEAN, r \in BOOLEAN, l \in BOOLEAN :
              /\ e => mbr_device(device) # <<>>
              /\ w => e
              /\ r => w
              /\ l => is_writeable(mbr_device(device), e, w, r)
              /\ device' = mbr_device(device)
              /\ calls' = calls \o <<CallMain("install_mbr", mbr_device(device), 0)>>
              /\ mbr_env' = [checked |-> TRUE, exists |-> e, w_ok |-> w, r_ok |-> r, lilo |-> l]
              /\ IF install_mbr_check(mbr_device(device), e, w, r, l) = "none"
                   THEN pc' = "mbr_init" /\ UNCHANGED <<exit_status, exc>>
                   ELSE Exit(1, install_mbr_check(mbr_device(device), e, w, r, l))
         ELSE /\ pc' = "bootloader"
              /\ UNCHANGED <<exit_status, exc, device, mbr_env, calls>>
    /\ UNCHANGED <<inputs, iso_index, skip_mbr, hi_locals, id_locals, mounts, target_fs,
                   failures>>

\* as the test of line 305 (retcode < 0) would, put at lines 288 and 296
returncode_raises_negative(rc) == rc < 0

\* lines 288 and 296: proc.returncode != 0 raises Exception
returncode_raises(rc) == rc # 0

\* lines 285-289: lilo -M <device> ext, run whatever dry_run says
install_mbr_init ==
    /\ pc = "mbr_init"
    /\ \E rc \in ExitCodes :
         /\ MayExit(rc)
         /\ failures' = Count(rc)
         /\ calls' = calls \o <<CallMain("lilo -M", device, rc)>>
         /\ IF returncode_raises(rc) THEN Exit(1, "Exception")
            ELSE pc' = "mbr_activate" /\ UNCHANGED <<exit_status, exc>>
    /\ UNCHANGED <<inputs, device, iso_index, skip_mbr, hi_locals, id_locals, mbr_env,
                   mounts, target_fs>>

\* lines 292-297: lilo -A <device> 1, unless dry_run
install_mbr_activate ==
    /\ pc = "mbr_activate"
    /\ IF options.dryrun
         THEN /\ pc' = "mbr_copy"
              /\ UNCHANGED <<exit_status, exc, failures, calls>>
         ELSE \E rc \in ExitCodes :
              /\ MayExit(rc)
              /\ failures' = Count(rc)
              /\ calls' = calls \o <<CallMain("lilo -A", device, rc)>>
              /\ IF returncode_raises(rc) THEN Exit(1, "Exception")
                 ELSE pc' = "mbr_copy" /\ UNCHANGED <<exit_status, exc>>
    /\ UNCHANGED <<inputs, device, iso_index, skip_mbr, hi_locals, id_locals, mbr_env,
                   mounts, target_fs>>

\* as if the copy of mbr.bin were not under a dry_run test
mbr_copy_runs_always == TRUE

\* line 300: if not dry_run, with dry_run=options.dryrun from line 587
mbr_copy_runs == ~options.dryrun

\* lines 300-308: cat mbr.bin > device unless dry_run; a negative status is
\* logged, no status raises, install_mbr returns
install_mbr_copy ==
    /\ pc = "mbr_copy"
    /\ IF ~mbr_copy_runs
         THEN UNCHANGED <<failures, calls>>
         ELSE \E rc \in CallCodes :
              /\ MayExit(rc)
              /\ failures' = Count(rc)
              /\ calls' = calls \o <<CallMain("cat mbr.bin", device, rc)>>
    /\ pc' = "bootloader"
    /\ UNCHANGED <<inputs, exit_status, exc, device, iso_index, skip_mbr, hi_locals,
                   id_locals, mbr_env, mounts, target_fs>>

\* ----------------------------------------------------- install_bootloader
\* lines 248-251
bootloader_device(partition) ==
    IF EndsInDigit(partition) THEN re_group1(partition) ELSE partition

\* lines 253-256
installer == IF options.grub THEN "install_grub" ELSE "install_syslinux"

\* lines 244-256
install_bootloader(partition) ==
    <<CallMain("install_bootloader", partition, 0),
      CallMain(installer, bootloader_device(partition), 0)>>

\* lines 595-600: the bootloader unless options.copyonly, then the run ends
main_bootloader ==
    /\ pc = "bootloader"
    /\ calls' = IF options.copyonly THEN calls ELSE calls \o install_bootloader(device)
    /\ Exit(0, "none")
    /\ UNCHANGED <<inputs, device, iso_index, skip_mbr, hi_locals, id_locals, mbr_env,
                   mounts, target_fs, failures>>

Next ==
    \/ main_start
    \/ handle_iso_mount
    \/ identify_grml_flavour
    \/ copy_squashfs
    \/ copy_module
    \/ copy_kernel
    \/ copy_initrd
    \/ copy_bootfiles
    \/ handle_iso_finally
    \/ main_mbr
    \/ install_mbr_init
    \/ install_mbr_activate
    \/ install_mbr_copy
    \/ main_bootloader

Spec == Init /\ [][Next]_vars

\* install_bootloader on its own: main has reached line 595 after a run over
\* one directory source without --mbr and --copy-only, with any target path
InitBootloader ==
    /\ options \in [dryrun : {FALSE}, copyonly : {FALSE}, mbr : {FALSE}, grub : BOOLEAN,
                    bootloaderonly : {FALSE}]
    /\ isos = <<"dir">>
    /\ target \in Partitions
    /\ target_isdir = FALSE
    /\ syslinux_found = TRUE
    /\ euid_root = TRUE
    /\ pc = "bootloader"
    /\ exit_status = 0
    /\ exc = "none"
    /\ device = target
    /\ iso_index = 2
    /\ skip_mbr = FALSE
    /\ hi_skip_mbr = FALSE
    /\ iso_mountpoint = NoMp
    /\ device_mountpoint = NoMp
    /\ remove_iso_mountpoint = FALSE
    /\ remove_device_mountpoint = FALSE
    /\ version_file = "unset"
    /\ grml_info = Unset
    /\ grml_flavour = Unset
    /\ mbr_env = [checked |-> FALSE, exists |-> FALSE, w_ok |-> FALSE, r_ok |-> FALSE, lilo |-> FALSE]
    /\ tmpdirs = {}
    /\ mounted = {}
    /\ target_dirs = {}
    /\ target_files = {}
    /\ failures = 0
    /\ calls = <<>>

SpecBootloader == InitBootloader /\ [][main_bootloader]_vars

\* a run with --bootloader-only; the option is parsed (lines 56-57) and read
\* nowhere, so runs without it are the same runs
InitBootloaderOnly ==
    /\ options \in [dryrun : BOOLEAN, copyonly : BOOLEAN, mbr : BOOLEAN, grub : BOOLEAN,
                    bootloaderonly : {TRUE}]
    /\ options.copyonly => ~options.grub
    /\ isos \in IsoLists
    /\ target \in Targets
    /\ target_isdir \in BOOLEAN
    /\ target_isdir => target = <<"/", "b">>
    /\ syslinux_found \in BOOLEAN
    /\ euid_root \in BOOLEAN
    /\ pc = "main"
    /\ exit_status = 0
    /\ exc = "none"
    /\ device = Unset
    /\ iso_index = 0
    /\ skip_mbr = FALSE
    /\ hi_skip_mbr = FALSE
    /\ iso_mountpoint = NoMp
    /\ device_mountpoint = NoMp
    /\ remove_iso_mountpoint = FALSE
    /\ remove_device_mountpoint = FALSE
    /\ version_file = "unset"
    /\ grml_info = Unset
    /\ grml_flavour = Unset
    /\ mbr_env = [checked |-> FALSE, exists |-> FALSE, w_ok |-> FALSE, r_ok |-> FALSE, lilo |-> FALSE]
    /\ tmpdirs = {}
    /\ mounted = {}
    /\ target_dirs = {}
    /\ target_files = {}
    /\ failures = 0
    /\ calls = <<>>

SpecBootloaderOnly == InitBootloaderOnly /\ [][Next]_vars

\* ----------------------------------------------------------------- claims
\* positions in the trace of the operations in S
Ops(S) == {i \in DOMAIN calls : calls[i].op \in S}
MbrSteps == {"lilo -M", "lilo -A", "cat mbr.bin"}
Installers == {"install_grub", "install_syslinux"}
CopyPcs == {"copy_squashfs", "copy_module", "copy_kernel", "copy_initrd", "copy_boot"}
HandleIsoPcs == {"handle_iso", "identify", "finally"} \cup CopyPcs
\* p with its whole trailing run of digits removed
WithoutTrailingDigits(p) ==
    CHOOSE q \in {SubSeq(p, 1, k) : k \in 0..Len(p)} :
        /\ ~EndsInDigit(q)
        /\ AllDigits(SubSeq(p, Len(q) + 1, Len(p)))
TmpCreated == {calls[i].mp : i \in Ops({"mkdtemp"})}
NoMountFailure == \A i \in Ops({"mount", "umount"}) : calls[i].rc = 0
TimesDone(op, mp) ==
    Cardinality({i \in DOMAIN calls : calls[i].mp = mp /\ calls[i].op = op /\ calls[i].rc = 0})

\* C1: once handle_iso has been left by normal completion, by a failed flavour
\* identification or by a failure inside copy_grml_files (no mount or umount
\* command having failed), every temporary mount point it created and mounted
\* has been unmounted exactly once and removed exactly once, and nothing
\* temporary is still mounted.
C1_MountPointsReleasedOnce ==
    (pc \notin HandleIsoPcs /\ NoMountFailure) =>
        /\ \A mp \in TmpCreated :
             /\ TimesDone("mount", mp) = 1
             /\ TimesDone("umount", mp) = 1
             /\ TimesDone("rmdir", mp) = 1
        /\ mounted = {}
        /\ tmpdirs = {}

\* C1 witness: the run ended in handle_iso's sys.exit(1) after a failed flavour
\* identification, with a source and a target mount point created and released.
C1_Witness ==
    /\ pc = "exit"
    /\ exc = "SystemExit"
    /\ version_file = "None"
    /\ Cardinality(TmpCreated) = 2
    /\ NoMountFailure
    /\ \A mp \in TmpCreated : TimesDone("umount", mp) = 1

\* C2: for a directory target install_mbr is never called and no MBR step
\* (lilo -M, lilo -A, copy of mbr.bin) is performed, also with --mbr; stated
\* for the runs in which handle_iso has met the directory target (an ISO was
\* mounted, so line 513 ran).
C2_NoMbrOnDirectory ==
    (target_isdir /\ Ops({"mount"}) # {}) => Ops(MbrSteps \cup {"install_mbr"}) = {}

\* C3: with --dry-run no mount, umount, directory creation or file copy on the
\* target, and no boot-record writer invocation is performed.
C3_DryRunHasNoEffect ==
    options.dryrun =>
        Ops({"mount", "umount", "mkdir", "install"} \cup MbrSteps) = {}

\* install_mbr's precondition as the claim states it
MbrPreconditionMet ==
    /\ device # <<>>
    /\ mbr_env.exists /\ mbr_env.w_ok /\ mbr_env.r_ok
    /\ mbr_env.lilo

\* C4: when install_mbr finds the device empty, missing, not readable or not
\* writable, or lilo not executable, it raises (the run ends with status 1)
\* and no MBR step is performed; no MBR step is performed before both checks
\* have passed.
C4_MbrChecksComeFirst ==
    /\ (mbr_env.checked /\ ~MbrPreconditionMet) =>
          /\ Ops(MbrSteps) = {}
          /\ pc = "exit"
          /\ exit_status # 0
          /\ exc \in {"IOError", "Exception"}
    /\ Ops(MbrSteps) # {} => (mbr_env.checked /\ MbrPreconditionMet)

\* C4 witness: install_mbr was entered for an existing, writable but unreadable
\* device with lilo present, and the run ended.
C4_Witness ==
    /\ mbr_env.checked
    /\ device # <<>> /\ mbr_env.exists /\ mbr_env.w_ok /\ ~mbr_env.r_ok
    /\ pc = "exit"

\* C5: once one of the three MBR steps has exited non-zero, no bootloader
\* installer is invoked and the run ends with a non-zero exit status.
C5_MbrFailureEndsRun ==
    (\E i \in Ops(MbrSteps) : calls[i].rc # 0) =>
        /\ Ops(Installers) = {}
        /\ pc = "exit" => exit_status # 0

C7_BootloaderOnWholeDevice ==
    /\ Cardinality(Ops(Installers)) = Cardinality(Ops({"install_bootloader"}))
    /\ Cardinality(Ops(Installers)) <= 1
    /\ pc = "exit" => Cardinality(Ops(Installers)) = 1
    /\ \A i \in Ops({"install_bootloader"}) :
         LET partition == calls[i].arg
             dev == calls[i + 1].arg
         IN /\ calls[i + 1].op = (IF options.grub THEN "install_grub" ELSE "install_syslinux")
            /\ dev = WithoutTrailingDigits(partition)
            /\ ~EndsInDigit(partition) => dev = partition
            /\ EndsInDigit(partition) => dev # partition
            /\ bootloader_device(dev) = dev

\* C7 witness: install_grub was invoked for a partition path that ends in a run
\* of two digits after a non-digit.
C7_Witness ==
    \E i \in Ops({"install_grub"}) :
        LET partition == calls[i - 1].arg
        IN /\ Len(partition) >= 3
           /\ partition[Len(partition)] \in Digit
           /\ partition[Len(partition) - 1] \in Digit
           /\ partition[Len(partition) - 2] \notin Digit

\* every command and search of the run so far succeeded
AllSucceeded == \A i \in DOMAIN calls : calls[i].rc = 0

\* C8: a run without --copy-only and --dry-run over an ISO whose marker names a
\* flavour, in which every external operation succeeded, ends with exit status
\* 0 after writing menu.lst, syslinux.cfg and boot.msg and invoking the
\* bootloader installer.
C8_FullDeploymentSucceeds ==
    (/\ pc = "exit"
     /\ ~options.copyonly /\ ~options.dryrun
     /\ Ops({"mount"}) # {}
     /\ AllSucceeded
     /\ grml_flavour \notin {Unset, <<>>}) =>
        /\ exit_status = 0
        /\ {<<"/boot/grub/", "menu.lst">>, <<"/boot/isolinux/", "syslinux.cfg">>,
            <<"/boot/isolinux/", "boot.msg">>} \subseteq target_files
        /\ Ops(Installers) # {}

\* C9: when the first line of the marker file is empty, flavour identification
\* raises and no file of that source is copied.
C9_EmptyMarkerFails ==
    grml_info \in {<<>>, <<"\n">>} =>
        /\ exc # "none"
        /\ \A i \in Ops({"install"}) : calls[i].iso # iso_index

\* C10: when search_file finds no marker, identification raises, nothing is
\* created or copied on the target for that source, no later source, MBR step
\* or installer is run and the exit status is non-zero; and whenever
\* copy_grml_files is at work or has just created a directory or copied a file
\* (the newest entry of the trace), the marker of that source was found and
\* the flavour read from it.
C10_NoMarkerNoDeployment ==
    /\ version_file = "None" =>
          /\ exc # "none"
          /\ pc \in {"finally", "exit"}
          /\ pc = "exit" => exit_status # 0
          /\ \A i \in DOMAIN calls :
               /\ calls[i].iso = iso_index => calls[i].op \notin {"mkdir", "install"}
               /\ calls[i].iso <= iso_index
          /\ Ops(MbrSteps \cup Installers \cup {"install_mbr", "install_bootloader"}) = {}
    /\ pc \in CopyPcs => (version_file = "found" /\ grml_flavour # Unset /\ exc = "none")
    /\ (calls # <<>> /\ calls[Len(calls)].op \in {"mkdir", "install"}) =>
          /\ calls[Len(calls)].iso = iso_index
          /\ version_file = "found"
          /\ grml_flavour = re_flavour(grml_info)

\* C10 witness: the run ended on a source without marker while another source
\* was still to be handled and --mbr was given.
C10_Witness ==
    /\ pc = "exit"
    /\ version_file = "None"
    /\ iso_index < Len(isos)
    /\ options.mbr
    /\ exit_status = 1

\* C11: once the install command of an artifact has exited non-zero, or an
\* artifact was not found under the source, the deployment of that source has
\* failed: no artifact of that source is copied afterwards, handle_iso is not
\* left by return (the run goes on to no other source and to no MBR or
\* bootloader step), and the run ends with a non-zero status.
C11_CopyFailureFailsDeployment ==
    \A i \in DOMAIN calls :
        (\/ calls[i].op = "install" /\ calls[i].rc # 0
         \/ calls[i].op = "search_file" /\ calls[i].rc # 0) =>
            /\ \A j \in DOMAIN calls :
                 (j > i /\ calls[j].op = "install") => calls[j].iso # calls[i].iso
            /\ iso_index = calls[i].iso
            /\ Ops(MbrSteps \cup Installers \cup {"install_mbr", "install_bootloader"}) = {}
            /\ pc = "exit" => exit_status # 0

\* C12: with --copy-only neither a bootloader installer nor an MBR step
\* (lilo -M, lilo -A, copy of mbr.bin) is performed, whatever --mbr and --grub
\* say; stated for a device target, where line 581 alone decides about the MBR.
C12_CopyOnlySkipsMbrAndBootloader ==
    (options.copyonly /\ ~target_isdir) => Ops(MbrSteps \cup Installers) = {}

\* flavour names the marker lines give
Flavours == {re_flavour(line) : line \in Lines}
\* the directories and files of the four core artifacts of flavour fl
CoreDirs(fl) == {squashfs_target, <<"/boot/release/">> \o fl}
CoreFiles(fl) ==
    {squashfs_target \o fl \o <<".squashfs">>, squashfs_target \o fl \o <<".module">>,
     <<"/boot/release/">> \o fl \o <<"/linux26">>,
     <<"/boot/release/">> \o fl \o <<"/initrd.gz">>}
AllCoreDirs == UNION {CoreDirs(fl) : fl \in Flavours}
AllCoreFiles == UNION {CoreFiles(fl) : fl \in Flavours}

\* C13: with --copy-only every directory created and every file copied on the
\* target is one of /live/, /boot/release/<flavour>, <flavour>.squashfs,
\* <flavour>.module, linux26 and initrd.gz; /boot/isolinux/ is never created
\* and no install or mkdir is attempted for anything else.
C13_CopyOnlyCopiesCoreOnly ==
    options.copyonly =>
        /\ target_dirs \subseteq AllCoreDirs
        /\ target_files \subseteq AllCoreFiles
        /\ isolinux_target \notin target_dirs
        /\ \A i \in DOMAIN calls :
             /\ calls[i].op = "mkdir" => calls[i].arg \in AllCoreDirs
             /\ calls[i].op = "install" => calls[i].arg \in AllCoreFiles

\* C13 witness: a --copy-only run ended with status 0 after copy_grml_files
\* had copied the four core artifacts of a source and reached its sync.
C13_Witness ==
    /\ options.copyonly
    /\ pc = "exit"
    /\ exit_status = 0
    /\ Cardinality(target_files) = 4
    /\ Ops({"sync"}) # {}

\* C14: with --bootloader-only no source is mounted, no directory is created
\* and no file is copied on the target.
C14_BootloaderOnlyDeploysNothing ==
    options.bootloaderonly => Ops({"mount", "mkdir", "install"}) = {}

\* main has passed its root check
RootCheckPassed == options.dryrun \/ euid_root

\* C15: without syslinux on PATH and without --grub the run ends with a
\* non-zero status before any mount, copy or device write; with --grub the
\* missing syslinux does not end the run: main reaches its loop over the
\* sources.
C15_SyslinuxNeededUnlessGrub ==
    /\ (~syslinux_found /\ ~options.grub /\ pc # "main") =>
          /\ pc = "exit"
          /\ exit_status # 0
          /\ calls = <<>>
    /\ (~syslinux_found /\ options.grub /\ RootCheckPassed /\ pc # "main") =>
          iso_index >= 1

\* C16: once handle_iso has returned for a source that is a directory, it has
\* mounted no source for it, and it has looked for the marker file in it (the
\* first step of identifying the flavour and deploying from it).
C16_DirectorySourceIsDeployed ==
    \A k \in 1..Len(isos) :
        (isos[k] = "dir" /\ iso_index > k) =>
            /\ \A i \in Ops({"mount"}) : calls[i].iso = k => calls[i].arg # IsoPath
            /\ \E i \in Ops({"search_file"}) :
                 calls[i].iso = k /\ calls[i].arg = <<"grml-version">>

\* C17: every umount and every rmdir handle_iso performs is on a mount point
\* it created with mkdtemp; the caller's target directory (mount point 0) is
\* never unmounted and never removed, on any exit path.
C17_CallerDirectoryIsKept ==
    LET created == TmpCreated
    IN \A i \in DOMAIN calls :
         calls[i].op \in {"umount", "rmdir"} =>
             /\ calls[i].mp # 0
             /\ calls[i].mp \in created

\* C17 witness: the target was the caller's directory, handle_iso deployed to
\* it, released the source mount point and the run ended.
C17_Witness ==
    /\ target_isdir
    /\ pc = "exit"
    /\ Ops({"install"}) # {}
    /\ \E i \in Ops({"install"}) : calls[i].mp = 0
    /\ Ops({"rmdir"}) # {}

\* C18: once handle_iso has been left after mounting its source, whatever
\* failed later (the mount of the target device, an unmount in the cleanup),
\* nothing it mounted is still mounted and no temporary directory it created
\* is left, except a mount point whose own umount command failed.
C18_ReleaseAfterAnyFailure ==
    (/\ pc \notin HandleIsoPcs
     /\ \A i \in Ops({"mount"}) : calls[i].arg = IsoPath => calls[i].rc = 0) =>
        \A mp \in mounted \cup tmpdirs :
            \E i \in Ops({"umount"}) : calls[i].mp = mp /\ calls[i].rc # 0

\* C19: outside --dry-run each MBR step is performed at most once; lilo -A
\* only after a lilo -M that exited 0, and the copy of mbr.bin only after a
\* lilo -A that exited 0.
C19_MbrStepsInOrder ==
    ~options.dryrun =>
        \A i \in Ops(MbrSteps) :
            /\ \A j \in Ops(MbrSteps) : calls[j].op = calls[i].op => j = i
            /\ calls[i].op = "lilo -A" =>
                 \E j \in 1..(i - 1) : calls[j].op = "lilo -M" /\ calls[j].rc = 0
            /\ calls[i].op = "cat mbr.bin" =>
                 /\ \E j \in 1..(i - 1) : calls[j].op = "lilo -M" /\ calls[j].rc = 0
                 /\ \E j \in 1..(i - 1) : calls[j].op = "lilo -A" /\ calls[j].rc = 0

\* C19 witness: outside --dry-run lilo -M exited 0, lilo -A exited non-zero
\* and the run ended.
C19_Witness ==
    /\ ~options.dryrun
    /\ pc = "exit"
    /\ \E i \in Ops({"lilo -M"}) : calls[i].rc = 0
    /\ \E i \in Ops({"lilo -A"}) : calls[i].rc # 0

\* C20: with --dry-run execute runs none of the operations it wraps (no
\* mkdir, no install), and copy_grml_files, once called (a flavour name was
\* identified), has run to its final sync without raising when it is left.
C20_DryRunCopyRunsThrough ==
    options.dryrun =>
        /\ Ops({"mkdir", "install"}) = {}
        /\ (grml_flavour \notin {Unset, <<>>} /\ pc \notin CopyPcs) =>
              /\ exc = "none"
              /\ \E i \in Ops({"sync"}) : calls[i].iso = iso_index

\* C21: every MBR step and every bootloader installer is performed after the
\* files of the sources were deployed and before the mount points of those
\* sources are released: no install follows it and no umount or rmdir
\* precedes it in the trace.
C21_BootloaderBeforeRelease ==
    \A i \in Ops(MbrSteps \cup Installers) :
        /\ \A j \in Ops({"install"}) : j < i
        /\ \A j \in Ops({"umount", "rmdir"}) : j > i

\* install_mbr was entered with --dry-run, its preconditions met
DryRunMbr == options.dryrun /\ mbr_env.checked /\ MbrPreconditionMet
\* install_mbr has returned to main
MbrReturned ==
    /\ pc \in {"bootloader", "exit"}
    /\ \E i \in Ops({"lilo -M"}) : calls[i].rc = 0

\* C22 as stated: once install_mbr has returned under --dry-run, lilo -A was
\* not run, while lilo -M and the copy of mbr.bin were.
C22_DryRunSkipsActivateOnly ==
    (DryRunMbr /\ MbrReturned) =>
        /\ Ops({"lilo -A"}) = {}
        /\ Ops({"lilo -M"}) # {}
        /\ Ops({"cat mbr.bin"}) # {}

\* C22 amended: under --dry-run, preconditions met, install_mbr runs lilo -M
\* (once it is past its first step there is exactly one lilo -M in the
\* trace) and runs neither lilo -A nor the copy of mbr.bin.
C22_DryRunRunsInitializeOnly ==
    DryRunMbr =>
        /\ Ops({"lilo -A", "cat mbr.bin"}) = {}
        /\ pc # "mbr_init" => Cardinality(Ops({"lilo -M"})) = 1

\* C22 witness: install_mbr returned under --dry-run and the run ended with
\* status 0.
C22_Witness ==
    /\ DryRunMbr
    /\ MbrReturned
    /\ pc = "exit"
    /\ exit_status = 0

====
